---- MODULE Spec2Model ----
(***************************************************************************)
(* Model of api/msam/chalicelib/cloudwatch.py: the alarm subscription      *)
(* registry kept in the DynamoDB table ALARMS_TABLE_NAME and the Lambda    *)
(* entry point that applies CloudWatch alarm notifications to it.          *)
(*                                                                         *)
(* Strings that the code formats, splits, percent-decodes or sorts are     *)
(* sequences of one-character strings; Ord gives each character its code   *)
(* point, the order Python compares strings by.                            *)
(***************************************************************************)
EXTENDS Integers, Sequences, FiniteSets, TLC

VARIABLES
    store,   \* the items of the alarms table, one record per item
    clock,   \* the last value time.time() returned, in whole seconds
    nops,    \* invocations of subscribe, unsubscribe and incoming started so far
    h,       \* the API handler in flight (subscribe, unsubscribe or a query)
    ing,     \* the incoming_cloudwatch_alarm invocation in flight
    last     \* the handler invocation that completed last, with what it returned

vars == <<store, clock, nops, h, ing, last>>

----------------------------------------------------------------------------
(* Bounds of the model *)

MaxOps == 3          \* invocations of the writing handlers in one behaviour
MaxClock == 1        \* time.time() ranges over 0..MaxClock
MaxPageLen == 2      \* items in one page of a query or scan
MaxEmptyPages == 1   \* empty pages the store may return during one query

----------------------------------------------------------------------------
(* Strings *)

Ord ==
    ("%" :> 37) @@ ("1" :> 49) @@ ("2" :> 50) @@ ("4" :> 52) @@ ("5" :> 53) @@
    (":" :> 58) @@ ("A" :> 65) @@ ("K" :> 75) @@ ("L" :> 76) @@ ("M" :> 77) @@
    ("O" :> 79) @@ ("R" :> 82) @@ ("a" :> 97) @@ ("e" :> 101) @@ ("n" :> 110) @@
    ("r" :> 114) @@ ("s" :> 115) @@ ("t" :> 116) @@ ("w" :> 119)

HexVal ==
    ("1" :> 1) @@ ("2" :> 2) @@ ("4" :> 4) @@ ("5" :> 5) @@
    ("A" :> 10) @@ ("a" :> 10) @@ ("e" :> 14)

\* the character with code point n (every escape the inputs below hold
\* decodes to a character of Ord)
Chr(n) == CHOOSE c \in DOMAIN Ord : Ord[c] = n

\* urllib.parse.unquote: each "%" followed by two hex digits becomes the
\* character with that code; any other character is kept; the output is not
\* decoded again
RECURSIVE Unquote(_)
Unquote(s) ==
    IF s = <<>> THEN <<>>
    ELSE IF /\ Head(s) = "%"
            /\ Len(s) >= 3
            /\ s[2] \in DOMAIN HexVal
            /\ s[3] \in DOMAIN HexVal
         THEN <<Chr(16 * HexVal[s[2]] + HexVal[s[3]])>> \o Unquote(SubSeq(s, 4, Len(s)))
         ELSE <<Head(s)>> \o Unquote(Tail(s))

\* "{}:{}".format(region, alarm_name)
FormatRegionAlarmName(region, alarm_name) == region \o <<":">> \o alarm_name

\* str < str: by code point at the first difference, a proper prefix first
LexLess(a, b) ==
    \E k \in 0..(Len(b) - 1) :
        /\ k <= Len(a)
        /\ SubSeq(a, 1, k) = SubSeq(b, 1, k)
        /\ (k = Len(a) \/ Ord[a[k + 1]] < Ord[b[k + 1]])

\* sorted(S, reverse=True): a variant of Sorted
RECURSIVE SortedDescending(_)
SortedDescending(S) ==
    IF S = {} THEN <<>>
    ELSE LET m == CHOOSE x \in S : \A y \in S \ {x} : LexLess(y, x)
         IN  <<m>> \o SortedDescending(S \ {m})

\* sorted(S) for a set (or the keys of a dict) of strings
RECURSIVE Sorted(_)
Sorted(S) ==
    IF S = {} THEN <<>>
    ELSE LET m == CHOOSE x \in S : \A y \in S \ {x} : LexLess(x, y)
         IN  <<m>> \o Sorted(S \ {m})

\* str.split(sep): the pieces between the occurrences of the character sep
RECURSIVE Split(_, _)
Split(s, sep) ==
    IF \A k \in 1..Len(s) : s[k] # sep THEN <<s>>
    ELSE LET k == CHOOSE j \in 1..Len(s) : s[j] = sep /\ \A m \in 1..(j - 1) : s[m] # sep
         IN  <<SubSeq(s, 1, k - 1)>> \o Split(SubSeq(s, k + 1, Len(s)), sep)

\* str.split(sep, maxsplit=1): cut at the first sep only
SplitFirst(s, sep) ==
    IF \A k \in 1..Len(s) : s[k] # sep THEN <<s>>
    ELSE LET k == CHOOSE j \in 1..Len(s) : s[j] = sep /\ \A m \in 1..(j - 1) : s[m] # sep
         IN  <<SubSeq(s, 1, k - 1), SubSeq(s, k + 1, Len(s))>>

----------------------------------------------------------------------------
(* Inputs *)

\* alarm names as the API receives them in the path (percent-encoded)
AlarmNameArgs == { <<"A">>, <<"%", "2", "5", "4", "1">> }

\* alarm names as CloudWatch reports them in a notification (not encoded)
AlarmNames == { <<"A">>, <<"%", "4", "1">> }

Regions == { <<"e">>, <<"w">> }

ResourceArns == { <<"r">>, <<"s">> }

\* request.json_body of subscribe and unsubscribe
ResourceLists == { << <<"r">> >>, << <<"s">>, <<"r">> >> }

\* alarm states, as the API receives them and as CloudWatch reports them
AlarmStates == { <<"O", "K">>, <<"A", "L", "A", "R", "M">> }

----------------------------------------------------------------------------
(* The alarms table *)

Key(item) == <<item.RegionAlarmName, item.ResourceArn>>

\* a variant of PutItem that keeps the attributes item does not name, as
\* update_item would
PutItemMerge(st, item) ==
    {i \in st : Key(i) # Key(item)}
    \cup {[a \in DOMAIN item \cup DOMAIN i |-> IF a \in DOMAIN item THEN item[a] ELSE i[a]] :
            i \in {x \in st : Key(x) = Key(item)}}
    \cup {x \in {item} : \A i \in st : Key(i) # Key(item)}

\* put_item replaces the whole item under its key, or adds it
PutItem(st, item) == {i \in st : Key(i) # Key(item)} \cup {item}

DeleteItem(st, key) == {i \in st : Key(i) # Key(key)}

Idle == h.pc = "idle" /\ ing.pc = "idle"

NoHandler == [pc |-> "idle"]
NoResult == [op |-> "none"]

----------------------------------------------------------------------------
(* subscribe_resource_to_alarm and unsubscribe_resource_to_alarm *)

\* a variant of SubscribeKey that does not decode the path parameters
SubscribeKeyRaw(alarm_name, region) ==
    FormatRegionAlarmName(region, alarm_name)

\* region_alarm_name of subscribe_resource_to_alarm, from its path parameters
SubscribeKey(alarm_name, region) ==
    FormatRegionAlarmName(Unquote(region), Unquote(alarm_name))

\* region_alarm_name of unsubscribe_resource_to_alarm
UnsubscribeKey(alarm_name, region) ==
    FormatRegionAlarmName(Unquote(region), Unquote(alarm_name))

\* the item subscribe stores for one resource, and the key unsubscribe deletes
SubscribeItem(region_alarm_name, resource_arn) ==
    [RegionAlarmName |-> region_alarm_name, ResourceArn |-> resource_arn]

\* what the invocation g returned; replaced holds the items that were in
\* the table under the keys it put or deleted
WriteResult(g, ret) ==
    [op |-> g.op, alarm_name |-> g.alarm_name, region |-> g.region,
     resources |-> g.resources, replaced |-> g.replaced, ret |-> ret]

\* entry of either handler: decode the path parameters, build the key, read
\* the body; an empty body returns True at once
WriteStart(op, alarm_name, region, resources) ==
    /\ h.pc = "idle"
    /\ nops < MaxOps
    /\ nops' = nops + 1
    /\ LET call == [pc |-> "write", op |-> op,
                    alarm_name |-> alarm_name, region |-> region,
                    region_alarm_name |->
                        IF op = "subscribe"
                        THEN SubscribeKey(alarm_name, region)
                        ELSE UnsubscribeKey(alarm_name, region),
                    resources |-> resources, i |-> 1, replaced |-> {}]
       IN  IF resources = <<>>
           THEN /\ h' = NoHandler
                /\ last' = WriteResult(call, TRUE)
           ELSE /\ h' = call
                /\ last' = NoResult
    /\ UNCHANGED <<store, clock, ing>>

SubscribeStart ==
    \E alarm_name \in AlarmNameArgs, region \in Regions, resources \in ResourceLists :
        WriteStart("subscribe", alarm_name, region, resources)

UnsubscribeStart ==
    \E alarm_name \in AlarmNameArgs, region \in Regions, resources \in ResourceLists :
        WriteStart("unsubscribe", alarm_name, region, resources)

\* one pass of the for loop: put_item or delete_item for resources[i]; a
\* ClientError ends the handler with False, the last resource with True
WriteStep ==
    /\ h.pc = "write"
    /\ \E error \in BOOLEAN :
        IF error
        THEN /\ h' = NoHandler
             /\ last' = WriteResult(h, FALSE)
             /\ UNCHANGED store
        ELSE LET item == SubscribeItem(h.region_alarm_name, h.resources[h.i])
                 g == [h EXCEPT !.replaced =
                          h.replaced \cup {x \in store : Key(x) = Key(item)}]
             IN  /\ store' = IF h.op = "subscribe"
                              THEN PutItem(store, item)
                              ELSE DeleteItem(store, item)
                 /\ IF h.i = Len(h.resources)
                    THEN /\ h' = NoHandler
                         /\ last' = WriteResult(g, TRUE)
                    ELSE /\ h' = [g EXCEPT !.i = h.i + 1]
                         /\ UNCHANGED last
    /\ UNCHANGED <<clock, nops, ing>>

----------------------------------------------------------------------------
(* Paginated query and scan *)

\* the pages the store may answer one request with: at most MaxPageLen of the
\* items not returned yet, in any order
Pages(rem) ==
    {p \in UNION {[1..n -> rem] : n \in 0..MaxPageLen} :
        \A j, k \in 1..Len(p) : j # k => p[j] # p[k]}

PageItems(page) == {page[k] : k \in 1..Len(page)}

\* a request not yet issued: no key returned, no spare page used
NewQuery == [seen |-> {}, extra |-> 0]

\* one response to query or scan, for a request that has returned the keys
\* q.seen and matches the items `matching` now: response["Items"] is page,
\* and "LastEvaluatedKey" is in the response iff more.  The store gives the
\* key while items are left; it may also give it with nothing left, or send
\* an empty page with items left, MaxEmptyPages times in one request
Responses(q, matching) ==
    LET rem == {i \in matching : Key(i) \notin q.seen}
    IN  {c \in [page : Pages(rem), more : BOOLEAN] :
            LET left == rem \ PageItems(c.page)
                cost == (IF c.page = <<>> /\ rem # {} THEN 1 ELSE 0)
                        + (IF left = {} /\ c.more THEN 1 ELSE 0)
            IN  /\ left # {} => c.more
                /\ q.extra + cost <= MaxEmptyPages}

\* the request after response c: ExclusiveStartKey moves past the page
Continue(q, matching, c) ==
    LET rem == {i \in matching : Key(i) \notin q.seen}
        left == rem \ PageItems(c.page)
    IN  [seen |-> q.seen \cup {Key(i) : i \in PageItems(c.page)},
         extra |-> q.extra + (IF c.page = <<>> /\ rem # {} THEN 1 ELSE 0)
                           + (IF left = {} /\ c.more THEN 1 ELSE 0)]

\* KeyConditionExpression and index of each query; scan matches every item
RegionAlarmNameIndex(st, region_alarm_name) ==
    {i \in st : i.RegionAlarmName = region_alarm_name}

StateValueIndex(st, alarm_state) ==
    {i \in st : "StateValue" \in DOMAIN i /\ i.StateValue = alarm_state}

----------------------------------------------------------------------------
(* subscribers_to_alarm, all_subscribed_alarms, subscribed_with_state *)

\* for item in response["Items"]: subscribers.add(item["ResourceArn"])
SubscribersAdd(subscribers, page) ==
    subscribers \cup {page[k].ResourceArn : k \in 1..Len(page)}

\* for item in response["Items"]: alarms[item["RegionAlarmName"]] = alarm
RECURSIVE AlarmsAdd(_, _)
AlarmsAdd(alarms, page) ==
    IF page = <<>> THEN alarms
    ELSE LET item == Head(page)
             split_attr == SplitFirst(item.RegionAlarmName, ":")
             alarm == [Region |-> split_attr[1], AlarmName |-> split_attr[2]]
         IN  AlarmsAdd((item.RegionAlarmName :> alarm) @@ alarms, Tail(page))

\* a variant of ResourcesAdd that stores a fresh entry for every item
RECURSIVE ResourcesAddFresh(_, _)
ResourcesAddFresh(resources, page) ==
    IF page = <<>> THEN resources
    ELSE LET arn == Head(page).ResourceArn
             at == {k \in 1..Len(resources) : resources[k].ResourceArn = arn}
         IN  ResourcesAddFresh(
                 IF at # {}
                 THEN [k \in 1..Len(resources) |->
                          IF k \in at
                          THEN [ResourceArn |-> arn, AlarmCount |-> 1]
                          ELSE resources[k]]
                 ELSE Append(resources, [ResourceArn |-> arn, AlarmCount |-> 1]),
                 Tail(page))

\* for item in response["Items"]: count the item under its ResourceArn; the
\* dict keeps its keys in the order they were first set
RECURSIVE ResourcesAdd(_, _)
ResourcesAdd(resources, page) ==
    IF page = <<>> THEN resources
    ELSE LET arn == Head(page).ResourceArn
             at == {k \in 1..Len(resources) : resources[k].ResourceArn = arn}
         IN  ResourcesAdd(
                 IF at # {}
                 THEN [k \in 1..Len(resources) |->
                          IF k \in at
                          THEN [resources[k] EXCEPT !.AlarmCount = resources[k].AlarmCount + 1]
                          ELSE resources[k]]
                 ELSE Append(resources, [ResourceArn |-> arn, AlarmCount |-> 1]),
                 Tail(page))

\* results = [alarms[key] for key in sorted(alarms)]
AlarmsResult(alarms) ==
    LET keys == Sorted(DOMAIN alarms)
    IN  [k \in 1..Len(keys) |-> alarms[keys[k]]]

\* what each query handler starts from, matches, adds per page and returns
ReadEmpty(op) ==
    CASE op = "subscribers_to_alarm" -> {}
      [] op = "all_subscribed_alarms" -> <<>>
      [] op = "subscribed_with_state" -> <<>>

ReadMatching(call, st) ==
    CASE call.op = "subscribers_to_alarm" -> RegionAlarmNameIndex(st, call.key)
      [] call.op = "all_subscribed_alarms" -> st
      [] call.op = "subscribed_with_state" -> StateValueIndex(st, call.key)

ReadAdd(op, acc, page) ==
    CASE op = "subscribers_to_alarm" -> SubscribersAdd(acc, page)
      [] op = "all_subscribed_alarms" -> AlarmsAdd(acc, page)
      [] op = "subscribed_with_state" -> ResourcesAdd(acc, page)

ReadReturn(op, acc) ==
    CASE op = "subscribers_to_alarm" -> Sorted(acc)
      [] op = "all_subscribed_alarms" -> AlarmsResult(acc)
      [] op = "subscribed_with_state" -> acc

ReadResult(error, acc) ==
    [op |-> h.op, arg |-> h.arg, npages |-> h.npages,
     error |-> error, result |-> ReadReturn(h.op, acc)]

\* region_alarm_name of subscribers_to_alarm, from its parameters
SubscribersKey(alarm_name, region) ==
    FormatRegionAlarmName(Unquote(region), Unquote(alarm_name))

\* every list the handler can return when no query raises ClientError: one
\* per way the store pages the matching items of the table st
RECURSIVE ReadResults(_, _, _, _)
ReadResults(call, st, q, acc) ==
    UNION { IF c.more
            THEN ReadResults(call, st, Continue(q, ReadMatching(call, st), c),
                             ReadAdd(call.op, acc, c.page))
            ELSE {ReadReturn(call.op, ReadAdd(call.op, acc, c.page))} :
            c \in Responses(q, ReadMatching(call, st)) }

SubscribersToAlarm(st, alarm_name, region) ==
    ReadResults([op |-> "subscribers_to_alarm", key |-> SubscribersKey(alarm_name, region)],
                st, NewQuery, {})

SubscribedWithState(st, alarm_state) ==
    ReadResults([op |-> "subscribed_with_state", key |-> Unquote(alarm_state)],
                st, NewQuery, <<>>)

\* entry of a query handler: decode the path parameters, build the key
ReadStart(op, arg, key) ==
    /\ h.pc = "idle"
    /\ h' = [pc |-> "read", op |-> op, arg |-> arg, key |-> key,
             q |-> NewQuery, acc |-> ReadEmpty(op), npages |-> 0]
    /\ last' = NoResult
    /\ UNCHANGED <<store, clock, nops, ing>>

SubscribersToAlarmStart ==
    \E alarm_name \in AlarmNameArgs, region \in Regions :
        ReadStart("subscribers_to_alarm", <<alarm_name, region>>,
                  SubscribersKey(alarm_name, region))

AllSubscribedAlarmsStart ==
    ReadStart("all_subscribed_alarms", <<>>, <<>>)

SubscribedWithStateStart ==
    \E alarm_state \in AlarmStates :
        ReadStart("subscribed_with_state", alarm_state, Unquote(alarm_state))

\* one query or scan and the loop over its page; a ClientError ends the
\* handler with what it has, the response without LastEvaluatedKey with all
ReadStep ==
    /\ h.pc = "read"
    /\ \/ /\ h' = NoHandler
          /\ last' = ReadResult(TRUE, h.acc)
       \/ \E c \in Responses(h.q, ReadMatching(h, store)) :
            LET acc == ReadAdd(h.op, h.acc, c.page)
            IN  IF c.more
                THEN /\ h' = [h EXCEPT !.q = Continue(h.q, ReadMatching(h, store), c),
                                       !.acc = acc, !.npages = h.npages + 1]
                     /\ UNCHANGED last
                ELSE /\ h' = NoHandler
                     /\ last' = [ReadResult(FALSE, acc) EXCEPT !.npages = h.npages + 1]
    /\ UNCHANGED <<store, clock, nops, ing>>

----------------------------------------------------------------------------
(* incoming_cloudwatch_alarm *)

\* int(datetime.strptime(...).timestamp()) of alarm["StateChangeTime"] with
\* its date and time of day already read off (day days after 1970-01-01, sec
\* seconds into that day, us microseconds, off the UTC offset in seconds):
\* the microseconds since the epoch in UTC, divided by 10**6 and cut towards
\* zero
Timestamp(t) ==
    LET total == ((t.day * 86400 + t.sec) - t.off) * 1000000 + t.us
    IN  IF total >= 0 THEN total \div 1000000 ELSE -((-total) \div 1000000)

\* record["EventSubscriptionArn"] of a subscription in `region`
SubscriptionArn(region) ==
    <<"a", ":", "a", ":", "s", ":">> \o region \o <<":", "1", ":", "t", ":", "s">>

\* what a state change reports: state, namespace and time go together
StateChanges ==
    { [NewStateValue |-> <<"A", "L", "A", "R", "M">>, Namespace |-> "AWS/EC2",
       StateChangeTime |-> [day |-> 0, sec |-> 3601, us |-> 500000, off |-> 3600]],
      [NewStateValue |-> <<"O", "K">>, Namespace |-> "AWS/S3",
       StateChangeTime |-> [day |-> 0, sec |-> 2, us |-> 999999, off |-> 0]] }

\* one record of event["Records"], its Sns.Message already parsed as JSON
Notifications ==
    { [EventSubscriptionArn |-> SubscriptionArn(region),
       Message |-> [AlarmName |-> name, NewStateValue |-> c.NewStateValue,
                    Trigger |-> [Namespace |-> c.Namespace],
                    StateChangeTime |-> c.StateChangeTime]] :
        region \in Regions, name \in AlarmNames, c \in StateChanges }

\* event["Records"]: no record, one record, or two records about the alarm
\* named "A", the first of them its ALARM in the first region
Events ==
    {<<>>} \cup {<<n>> : n \in Notifications}
    \cup {<<m, n>> : m \in {x \in Notifications :
                              /\ x.EventSubscriptionArn = SubscriptionArn(<<"e">>)
                              /\ x.Message.AlarmName = <<"A">>
                              /\ x.Message.NewStateValue = <<"A", "L", "A", "R", "M">>},
                     n \in {x \in Notifications : x.Message.AlarmName = <<"A">>}}

\* lines 170-173: region, alarm, name and region_alarm_name of one record
RecordRegion(record) == Split(record.EventSubscriptionArn, ":")[4]

RecordRegionAlarmName(record) ==
    FormatRegionAlarmName(RecordRegion(record), record.Message.AlarmName)

\* the key subscribers_to_alarm(name, region) queries: it decodes both again
LookupKey(record) ==
    SubscribersKey(record.Message.AlarmName, RecordRegion(record))

\* a variant of AlarmItem that takes StateUpdated from the clock
AlarmItemClock(record, resource_arn, updated) ==
    [RegionAlarmName |-> RecordRegionAlarmName(record),
     ResourceArn |-> resource_arn,
     StateValue |-> record.Message.NewStateValue,
     Namespace |-> record.Message.Trigger.Namespace,
     StateUpdated |-> updated,
     Updated |-> updated]

\* a variant of AlarmItem that leaves Namespace out
AlarmItemNoNamespace(record, resource_arn, updated) ==
    [RegionAlarmName |-> RecordRegionAlarmName(record),
     ResourceArn |-> resource_arn,
     StateValue |-> record.Message.NewStateValue,
     StateUpdated |-> Timestamp(record.Message.StateChangeTime),
     Updated |-> updated]

\* the item written for one subscriber
AlarmItem(record, resource_arn, updated) ==
    [RegionAlarmName |-> RecordRegionAlarmName(record),
     ResourceArn |-> resource_arn,
     StateValue |-> record.Message.NewStateValue,
     Namespace |-> record.Message.Trigger.Namespace,
     StateUpdated |-> Timestamp(record.Message.StateChangeTime),
     Updated |-> updated]

\* what the invocation g did, once it has returned (always True):
\* query_errors and put_errors count the ClientErrors of its lookups and of
\* its put_item calls; dup says that it repeated the event of the invocation
\* before it, which read the clock as prev_updated
IngestResult(g) ==
    [op |-> "incoming", event |-> g.records, updated |-> g.updated,
     dup |-> g.dup, prev_updated |-> g.prev_updated,
     query_errors |-> g.query_errors, put_errors |-> g.put_errors,
     ret |-> TRUE]

\* the top of the loop over event["Records"] for record k, the table being
\* st; had_subs notes whether the record's alarm has a subscriber then
BeginRecord(g, k, st) ==
    [g EXCEPT !.pc = "lookup", !.idx = k, !.q = NewQuery, !.acc = {},
              !.subscribers = <<>>, !.sidx = 1,
              !.had_subs = RegionAlarmNameIndex(st, RecordRegionAlarmName(g.records[k])) # {}]

\* a variant of EndRecord that catches the ClientError inside the loop over
\* the records
EndRecordContinue(g, st, put_error) ==
    IF g.idx = Len(g.records)
    THEN [ing |-> NoHandler, last |-> IngestResult(g)]
    ELSE [ing |-> BeginRecord(g, g.idx + 1, st), last |-> last]

\* the loop over the subscribers of record g.idx has ended, normally or by
\* the ClientError of a put_item, which leaves both loops for the except
\* clause: take the next record, or print the error, and return True
EndRecord(g, st, put_error) ==
    IF put_error \/ g.idx = Len(g.records)
    THEN [ing |-> NoHandler, last |-> IngestResult(g)]
    ELSE [ing |-> BeginRecord(g, g.idx + 1, st), last |-> last]

\* subscribers_to_alarm has returned `subscribers`: loop over them
AfterLookup(g, subscribers, st) ==
    IF subscribers = <<>>
    THEN EndRecord(g, st, FALSE)
    ELSE [ing |-> [g EXCEPT !.pc = "put", !.subscribers = subscribers, !.sidx = 1],
          last |-> last]

\* entry: read the clock once, then the first record if there is one
IngestStart ==
    /\ ing.pc = "idle"
    /\ nops < MaxOps
    /\ nops' = nops + 1
    /\ \E event \in Events, updated \in clock..MaxClock :
        LET dup == /\ last.op = "incoming"
                   /\ last.event = event
                   /\ last.query_errors = 0
                   /\ last.put_errors = 0
            g == [pc |-> "lookup", records |-> event, idx |-> 0, updated |-> updated,
                  q |-> NewQuery, acc |-> {}, subscribers |-> <<>>, sidx |-> 1,
                  dup |-> dup, pre |-> IF dup THEN store ELSE {},
                  prev_updated |-> IF dup THEN last.updated ELSE updated,
                  query_errors |-> 0, put_errors |-> 0, had_subs |-> FALSE]
        IN  /\ clock' = updated
            /\ IF event = <<>>
               THEN /\ ing' = NoHandler
                    /\ last' = IngestResult(g)
               ELSE /\ ing' = BeginRecord(g, 1, store)
                    /\ last' = NoResult
    /\ UNCHANGED <<store, h>>

\* one query of subscribers_to_alarm(name, region) and the loop over its
\* page; its ClientError is caught inside subscribers_to_alarm, which then
\* returns the sorted subscribers it has
IngestLookup ==
    /\ ing.pc = "lookup"
    /\ LET record == ing.records[ing.idx]
           matching == RegionAlarmNameIndex(store, LookupKey(record))
       IN  \/ LET g == [ing EXCEPT !.query_errors = ing.query_errors + 1]
                  out == AfterLookup(g, Sorted(ing.acc), store)
              IN  ing' = out.ing /\ last' = out.last
           \/ \E c \in Responses(ing.q, matching) :
                LET acc == SubscribersAdd(ing.acc, c.page)
                    out == AfterLookup([ing EXCEPT !.acc = acc], Sorted(acc), store)
                IN  IF c.more
                    THEN /\ ing' = [ing EXCEPT !.q = Continue(ing.q, matching, c),
                                               !.acc = acc]
                         /\ UNCHANGED last
                    ELSE ing' = out.ing /\ last' = out.last
    /\ UNCHANGED <<store, clock, nops, h>>

\* one pass of the loop over subscribers: put_item of the full item; its
\* ClientError is caught by the handler, which prints it and returns True
IngestPut ==
    /\ ing.pc = "put"
    /\ \/ LET out == EndRecord([ing EXCEPT !.put_errors = ing.put_errors + 1], store, TRUE)
          IN  ing' = out.ing /\ last' = out.last /\ UNCHANGED store
       \/ LET item == AlarmItem(ing.records[ing.idx], ing.subscribers[ing.sidx], ing.updated)
              st == PutItem(store, item)
              out == IF ing.sidx = Len(ing.subscribers)
                     THEN EndRecord(ing, st, FALSE)
                     ELSE [ing |-> [ing EXCEPT !.sidx = ing.sidx + 1], last |-> last]
          IN  store' = st /\ ing' = out.ing /\ last' = out.last
    /\ UNCHANGED <<clock, nops, h>>

----------------------------------------------------------------------------

Init ==
    /\ store = {}
    /\ clock = 0
    /\ nops = 0
    /\ h = NoHandler
    /\ ing = NoHandler
    /\ last = NoResult

Next ==
    \/ Idle /\ SubscribeStart
    \/ Idle /\ UnsubscribeStart
    \/ WriteStep
    \/ Idle /\ SubscribersToAlarmStart
    \/ Idle /\ AllSubscribedAlarmsStart
    \/ Idle /\ SubscribedWithStateStart
    \/ ReadStep
    \/ Idle /\ IngestStart
    \/ IngestLookup
    \/ IngestPut

\* the handlers run one at a time
Spec == Init /\ [][Next]_vars

\* the Lambda invocation runs beside subscribe and unsubscribe requests, one
\* store operation at a time
NextConc ==
    \/ SubscribeStart
    \/ UnsubscribeStart
    \/ WriteStep
    \/ IngestStart
    \/ IngestLookup
    \/ IngestPut

SpecConc == Init /\ [][NextConc]_vars

----------------------------------------------------------------------------
(* Properties *)

Elems(seq) == {seq[k] : k \in 1..Len(seq)}

KeysOf(st) == {Key(i) : i \in st}

KeyAttributes == {"RegionAlarmName", "ResourceArn"}

StateAttributes == {"StateValue", "Namespace", "StateUpdated", "Updated"}

\* the items of st without their Updated attribute
StripUpdated(st) ==
    {[a \in DOMAIN i \ {"Updated"} |-> i[a]] : i \in st}

\* the step ends the work on record ing.idx of the invocation in flight
RecordDone ==
    /\ ing.pc # "idle"
    /\ ing'.pc = "idle" \/ ing'.idx # ing.idx

\* the invocation that returns in this step
Returns == ing.pc # "idle" /\ ing'.pc = "idle"

\* ClientErrors of the invocation in flight, counted after the step
QueryErrorsAfter == IF ing'.pc = "idle" THEN last'.query_errors ELSE ing'.query_errors
PutErrorsAfter == IF ing'.pc = "idle" THEN last'.put_errors ELSE ing'.put_errors

\* C1: once subscribe_resource_to_alarm has returned True, every list
\* subscribers_to_alarm can return for the same alarm name and region holds
\* each resource of the request; once unsubscribe_resource_to_alarm has
\* returned True, none of them holds any (no other handler has run since).
C1_SubscribeThenListed ==
    /\ (last.op = "subscribe" /\ last.ret) =>
          \A result \in SubscribersToAlarm(store, last.alarm_name, last.region) :
              Elems(last.resources) \subseteq Elems(result)
    /\ (last.op = "unsubscribe" /\ last.ret) =>
          \A result \in SubscribersToAlarm(store, last.alarm_name, last.region) :
              Elems(last.resources) \cap Elems(result) = {}

\* an unsubscribe of two resources of the percent-encoded alarm name returned
\* True and removed a subscription that a subscribe had stored
C1_Witness ==
    /\ last.op = "unsubscribe" /\ last.ret
    /\ last.alarm_name = <<"%", "2", "5", "4", "1">>
    /\ Len(last.resources) = 2
    /\ \E x \in last.replaced : DOMAIN x = KeyAttributes

\* C2: without a ClientError, subscribers_to_alarm returns its ResourceArns
\* in strictly ascending order, the same list for every paging of the
\* matching items; all_subscribed_alarms returns one entry per
\* RegionAlarmName of the table, in strictly ascending order of that key,
\* however the scan was paged.
C2_SortedUniquePageIndependent ==
    /\ (last.op = "subscribers_to_alarm" /\ ~last.error) =>
          /\ \A k \in 1..(Len(last.result) - 1) :
                LexLess(last.result[k], last.result[k + 1])
          /\ SubscribersToAlarm(store, last.arg[1], last.arg[2]) = {last.result}
    /\ (last.op = "all_subscribed_alarms" /\ ~last.error) =>
          LET key(alarm) == FormatRegionAlarmName(alarm.Region, alarm.AlarmName)
          IN  /\ \A k \in 1..(Len(last.result) - 1) :
                    LexLess(key(last.result[k]), key(last.result[k + 1]))
              /\ {key(alarm) : alarm \in Elems(last.result)}
                    = {i.RegionAlarmName : i \in store}

\* a scan of three pages returned two alarms in different order of region
\* and of key, from a table that holds two subscribers of one of them
C2_Witness ==
    /\ last.op = "all_subscribed_alarms" /\ ~last.error
    /\ last.npages = 3
    /\ Len(last.result) = 2
    /\ Cardinality(store) = 3
    /\ LexLess(last.result[1].AlarmName, last.result[2].AlarmName)

\* C3: when the work on a notification record ends and no store operation
\* of the invocation has failed, every item of the record's alarm
\* (region:AlarmName) is the item the notification describes: StateValue,
\* Namespace, StateUpdated and Updated from the notification and the clock,
\* under its own key.
C3_SubscribersUpdated ==
    [][(RecordDone /\ QueryErrorsAfter = 0 /\ PutErrorsAfter = 0) =>
          \A j \in store' :
              j.RegionAlarmName = RecordRegionAlarmName(ing.records[ing.idx]) =>
                  j = AlarmItem(ing.records[ing.idx], j.ResourceArn, ing.updated)]_vars

\* C4 as stated: an invocation that repeats the one-record event of the
\* invocation before it, neither with a store error, returns with the table
\* as it found it.
C4_SameTable ==
    [][(Returns /\ ing.dup /\ Len(ing.records) = 1
        /\ QueryErrorsAfter = 0 /\ PutErrorsAfter = 0) =>
          store' = ing.pre]_vars

\* C4, amended: such an invocation leaves every attribute but Updated as
\* it found it; an item it changes is an item of the event's lookup, has
\* the time of this invocation as Updated, and had the time of the earlier
\* invocation.
C4_SameButUpdated ==
    [][(Returns /\ ing.dup /\ Len(ing.records) = 1
        /\ QueryErrorsAfter = 0 /\ PutErrorsAfter = 0) =>
          /\ KeysOf(store') = KeysOf(ing.pre)
          /\ StripUpdated(store') = StripUpdated(ing.pre)
          /\ \A j \in store' \ ing.pre :
                /\ j.Updated = ing.updated
                /\ [j EXCEPT !.Updated = ing.prev_updated] \in ing.pre]_vars

\* the repeated invocation read a later clock and rewrote an item
C4_Witness ==
    /\ last.op = "incoming" /\ last.dup
    /\ Len(last.event) = 1
    /\ last.query_errors = 0 /\ last.put_errors = 0
    /\ last.prev_updated < last.updated
    /\ \E j \in store :
          /\ j.RegionAlarmName = RecordRegionAlarmName(last.event[1])
          /\ "Updated" \in DOMAIN j
          /\ j.Updated = last.updated

\* C5: the handler reaches put_item for a record only if the record's alarm
\* had a subscription when the work on the record began, and it returns
\* True.
C5_NoSubscriberNoWrite ==
    /\ ing.pc = "put" => ing.had_subs
    /\ last.op = "incoming" => last.ret

\* C6: without a ClientError, subscribed_with_state(s) returns one entry per
\* ResourceArn that has an item with StateValue s, whose AlarmCount is the
\* number of these items; the other items add nothing.
C6_CountPerResource ==
    (last.op = "subscribed_with_state" /\ ~last.error) =>
        LET inState(arn) == {i \in store : /\ i.ResourceArn = arn
                                           /\ "StateValue" \in DOMAIN i
                                           /\ i.StateValue = last.arg}
        IN  /\ \A j, k \in 1..Len(last.result) :
                  j # k => last.result[j].ResourceArn # last.result[k].ResourceArn
            /\ {e.ResourceArn : e \in Elems(last.result)}
                  = {arn \in ResourceArns : inState(arn) # {}}
            /\ \A e \in Elems(last.result) :
                  e.AlarmCount = Cardinality(inState(e.ResourceArn))

\* two pages gave one entry with AlarmCount 2, from a table that also holds
\* an item without StateValue
C6_Witness ==
    /\ last.op = "subscribed_with_state" /\ ~last.error
    /\ last.npages >= 2
    /\ last.result = << [ResourceArn |-> <<"r">>, AlarmCount |-> 2] >>
    /\ \E i \in store : DOMAIN i = KeyAttributes

C8_AnyErrorAborts ==
    /\ ing.pc = "put" => ing.query_errors = 0
    /\ last.op = "incoming" => last.ret

\* C8, amended: the ClientError of a put_item ends the invocation at once,
\* with the table as it was and True returned; the ClientError of a lookup
\* ends that lookup only, and the handler goes on to put the items of the
\* subscribers it has collected.
C8_PutErrorAborts ==
    [][/\ (ing.pc = "put" /\ PutErrorsAfter > ing.put_errors) =>
              /\ ing'.pc = "idle"
              /\ store' = store
              /\ last'.op = "incoming" /\ last'.ret
       /\ (ing.pc = "lookup" /\ QueryErrorsAfter > ing.query_errors) =>
              /\ store' = store
              /\ ing.acc # {} => (ing'.pc = "put" /\ ing'.subscribers = Sorted(ing.acc))]_vars

\* a put_item failed on the first of two records after an earlier put_item
\* had written an item
C8_Witness ==
    /\ last.op = "incoming"
    /\ last.put_errors = 1
    /\ Len(last.event) = 2
    /\ \E j \in store : "Updated" \in DOMAIN j /\ j.Updated = last.updated

\* C9, for a notification whose alarm name and region decode to themselves:
\* a put_item of the invocation adds no key to the table.
C9_IngestCreatesNothing ==
    [][(/\ ing.pc = "put"
        /\ ing' # ing
        /\ LookupKey(ing.records[ing.idx]) = RecordRegionAlarmName(ing.records[ing.idx])) =>
          KeysOf(store') \subseteq KeysOf(store)]_vars

\* C10: no two items of the table have the same key, and every item holds
\* either the two key attributes only or these and all of StateValue,
\* Namespace, StateUpdated and Updated.
C10_UniqueKeysAllOrNothing ==
    /\ \A i, j \in store : Key(i) = Key(j) => i = j
    /\ \A i \in store :
          \/ DOMAIN i = KeyAttributes
          \/ DOMAIN i = KeyAttributes \cup StateAttributes

\* a subscribe runs beside an invocation that has written an item, and the
\* table holds an item of either kind
C10_Witness ==
    /\ h.pc = "write" /\ h.op = "subscribe" /\ h.i = 2
    /\ ing.pc = "put" /\ ing.sidx = 2
    /\ \E i \in store : DOMAIN i = KeyAttributes
    /\ \E i \in store : DOMAIN i = KeyAttributes \cup StateAttributes

====
